---- MODULE Spec2Model ----
(***************************************************************************)
(* database-alchemy: the three-table schema (db_create.py) and the query / *)
(* filter engine (db_query.py), as a state machine over one database       *)
(* endpoint and the value returned by the last operation run against it.   *)
(***************************************************************************)
EXTENDS Integers, Sequences, FiniteSets, TLC

VARIABLES tables,     \* names of the tables that exist at the endpoint
          analyses,   \* rows of table analyses, in insertion order
          samples,    \* rows of table samples, in insertion order
          results,    \* rows of table results, in insertion order
          call,       \* the last operation invoked, with its arguments
          ret         \* what that operation returned or raised

vars == <<tables, analyses, samples, results, call, ret>>

(***************************************************************************)
(* Bounds of the model.                                                    *)
(***************************************************************************)
MaxRows == 5
MaxFrameRows == 2

(***************************************************************************)
(* Python values.  Every value carries its type so that values of          *)
(* different types compare unequal, as they do in Python.                  *)
(***************************************************************************)
IntV(n) == [t |-> "int", v |-> n]
StrV(s) == [t |-> "str", v |-> s]
DateV(n) == [t |-> "date", v |-> n]
ListV(s) == [t |-> "list", v |-> s]
NoneV == [t |-> "none", v |-> 0]
NaN == [t |-> "nan", v |-> 0]

\* Python truth value testing: None, 0, '' and [] are falsy.
Truthy(x) ==
    CASE x.t = "none" -> FALSE
      [] x.t = "int" -> x.v # 0
      [] x.t = "str" -> x.v # ""
      [] x.t = "list" -> Len(x.v) > 0
      [] OTHER -> TRUE

isinstance_list(x) == x.t = "list"

(***************************************************************************)
(* Sequence helpers.                                                       *)
(***************************************************************************)
Range(s) == {s[i] : i \in 1..Len(s)}

RECURSIVE SelectSeqIdx(_, _, _)
\* the subsequence of s at the positions i (in order) for which keep[i]
SelectSeqIdx(s, keep, i) ==
    IF i > Len(s) THEN <<>>
    ELSE (IF keep[i] THEN <<s[i]>> ELSE <<>>) \o SelectSeqIdx(s, keep, i + 1)

(***************************************************************************)
(* OrderedDict: a sequence of <<key, value>> items with distinct keys.     *)
(***************************************************************************)
Keys(od) == {od[i][1] : i \in 1..Len(od)}

Get(od, k) == od[CHOOSE i \in 1..Len(od) : od[i][1] = k][2]

\* d[k] = v : an existing key keeps its position, a new key is appended
SetItem(od, k, v) ==
    IF k \in Keys(od)
    THEN [i \in 1..Len(od) |-> IF od[i][1] = k THEN <<k, v>> ELSE od[i]]
    ELSE Append(od, <<k, v>>)

RECURSIVE Update(_, _)
\* d.update(items)
Update(od, items) ==
    IF items = <<>> THEN od
    ELSE Update(SetItem(od, items[1][1], items[1][2]), Tail(items))

(***************************************************************************)
(* pandas.DataFrame(rows) for a list of dicts: the columns are the keys in *)
(* order of first appearance, one row per dict, NaN where a dict lacks a   *)
(* column.  A frame is [columns: sequence of names, data: sequence of      *)
(* rows], a row being a function from the column names to values.          *)
(***************************************************************************)
RECURSIVE ColumnsOf(_, _)
ColumnsOf(rows, acc) ==
    IF rows = <<>> THEN acc
    ELSE LET new == SelectSeq([i \in 1..Len(rows[1]) |-> rows[1][i][1]],
                              LAMBDA k : k \notin Range(acc))
         IN ColumnsOf(Tail(rows), acc \o new)

DataFrame(rows) ==
    LET cols == ColumnsOf(rows, <<>>)
    IN [columns |-> cols,
        data |-> [i \in 1..Len(rows) |->
                    [c \in Range(cols) |->
                        IF c \in Keys(rows[i]) THEN Get(rows[i], c) ELSE NaN]]]

\* df[mask]: the rows where mask holds, in order, under the same columns
BoolIndex(df, mask) ==
    [columns |-> df.columns, data |-> SelectSeqIdx(df.data, mask, 1)]

Returned(v) == [exc |-> "none", value |-> v]
Raised(e) == [exc |-> e, value |-> NoneV]

(***************************************************************************)
(* db_create.py: the schema.                                               *)
(***************************************************************************)
\* Base.metadata: the tables declared by Analysis, Sample and Result
Metadata == {"analyses", "samples", "results"}

\* Analysis.display(): the row as an OrderedDict
display(analysis) ==
    << <<"analysis_id", analysis.analysis_id>>,
       <<"analysis_name", analysis.analysis_name>>,
       <<"date", analysis.date>>,
       <<"department", analysis.department>>,
       <<"analyst", analysis.analyst>> >>

\* The number of rows stored at the endpoint.
Rows == Len(analyses) + Len(samples) + Len(results)

\* The endpoint as one value.
Db == [tables |-> tables, analyses |-> analyses,
       samples |-> samples, results |-> results]

\* The same schema operation preceded by a drop of the declared tables.
create_all_after_drop(db) ==
    [tables |-> Metadata, analyses |-> <<>>, samples |-> <<>>, results |-> <<>>]

\* Base.metadata.create_all(engine): checkfirst is on, so only the declared
\* tables that are absent are created (empty); present ones are not touched.
create_all(db) ==
    [tables |-> db.tables \cup Metadata,
     analyses |-> IF "analyses" \in db.tables THEN db.analyses ELSE <<>>,
     samples |-> IF "samples" \in db.tables THEN db.samples ELSE <<>>,
     results |-> IF "results" \in db.tables THEN db.results ELSE <<>>]

(***************************************************************************)
(* db_query.py: the query and filter engine.                               *)
(***************************************************************************)
\* The frame built from the first row's keys only.
return_dataframe_first_keys(query) ==
    LET row(i) == Update(<< <<"sample_name", query[i][2].sample_name>>,
                            <<"analysis_id", query[i][2].analysis_id>> >>,
                         query[i][1].metrics)
        all == DataFrame([i \in 1..Len(query) |-> row(i)])
        first == DataFrame(IF query = <<>> THEN <<>> ELSE <<row(1)>>)
    IN [columns |-> first.columns,
        data |-> [i \in 1..Len(query) |->
                    [c \in Range(first.columns) |-> all.data[i][c]]]]

\* return_dataframe(query): query is a sequence of <<Result, Sample>> pairs
return_dataframe(query) ==
    LET row(i) == Update(<< <<"sample_name", query[i][2].sample_name>>,
                            <<"analysis_id", query[i][2].analysis_id>> >>,
                         query[i][1].metrics)
    IN DataFrame([i \in 1..Len(query) |-> row(i)])

\* session.query(Result, Sample).join(Sample): the inner join of results and
\* samples on the foreign key results.sample_id = samples.sample_id
RECURSIVE JoinFrom(_, _, _)
JoinFrom(rs, ss, i) ==
    IF i > Len(rs) THEN <<>>
    ELSE LET m == SelectSeq(ss, LAMBDA s : s.sample_id = rs[i].sample_id)
         IN [j \in 1..Len(m) |-> <<rs[i], m[j]>>] \o JoinFrom(rs, ss, i + 1)

Join(db) == JoinFrom(db.results, db.samples, 1)

\* column.in_(values) and column == value, on a non-NULL column value
In(x, values) == \E j \in 1..Len(values) : values[j] = x

\* the rows the query of get_results_by_analysis yields
query_by_analysis(db, analysis_id) ==
    LET query == Join(db)
    IN IF Truthy(analysis_id) /\ isinstance_list(analysis_id)
       THEN SelectSeq(query, LAMBDA p : In(p[2].analysis_id, analysis_id.v))
       ELSE IF Truthy(analysis_id)
       THEN SelectSeq(query, LAMBDA p : p[2].analysis_id = analysis_id)
       ELSE query

get_results_by_analysis(db, analysis_id) ==
    return_dataframe(query_by_analysis(db, analysis_id))

\* the rows the query of get_results_by_sample yields
query_by_sample(db, sample_name) ==
    LET query == Join(db)
    IN IF Truthy(sample_name) /\ isinstance_list(sample_name)
       THEN SelectSeq(query, LAMBDA p : In(p[2].sample_name, sample_name.v))
       ELSE IF Truthy(sample_name)
       THEN SelectSeq(query, LAMBDA p : p[2].sample_name = sample_name)
       ELSE query

get_results_by_sample(db, sample_name) ==
    return_dataframe(query_by_sample(db, sample_name))

get_analyses(db) ==
    DataFrame([i \in 1..Len(db.analyses) |-> display(db.analyses[i])])


\* x > y and x < y between dates
Gt(x, y) == x.t = "date" /\ y.t = "date" /\ x.v > y.v
Lt(x, y) == x.t = "date" /\ y.t = "date" /\ x.v < y.v
\* x == y elementwise: NaN equals nothing
Eq(x, y) == x.t # "nan" /\ x = y

\* One pass of the loop with the date bounds inclusive.
filter_step_inclusive(df, column_name, value) ==
    IF ~Truthy(value) THEN Returned(df)
    ELSE IF column_name = "date_after"
    THEN IF "date" \notin Range(df.columns) THEN Raised("KeyError")
         ELSE Returned(BoolIndex(df, [i \in 1..Len(df.data) |->
                Gt(df.data[i]["date"], value) \/ df.data[i]["date"] = value]))
    ELSE IF column_name = "date_before"
    THEN IF "date" \notin Range(df.columns) THEN Raised("KeyError")
         ELSE Returned(BoolIndex(df, [i \in 1..Len(df.data) |->
                Lt(df.data[i]["date"], value) \/ df.data[i]["date"] = value]))
    ELSE IF column_name \notin Range(df.columns) THEN Raised("KeyError")
         ELSE Returned(BoolIndex(df, [i \in 1..Len(df.data) |->
                Eq(df.data[i][column_name], value)]))

\* One pass of the loop without the test of the value.
filter_step_unguarded(df, column_name, value) ==
    IF column_name = "date_after"
    THEN IF "date" \notin Range(df.columns) THEN Raised("KeyError")
         ELSE Returned(BoolIndex(df, [i \in 1..Len(df.data) |->
                Gt(df.data[i]["date"], value)]))
    ELSE IF column_name = "date_before"
    THEN IF "date" \notin Range(df.columns) THEN Raised("KeyError")
         ELSE Returned(BoolIndex(df, [i \in 1..Len(df.data) |->
                Lt(df.data[i]["date"], value)]))
    ELSE IF column_name \notin Range(df.columns) THEN Raised("KeyError")
         ELSE Returned(BoolIndex(df, [i \in 1..Len(df.data) |->
                Eq(df.data[i][column_name], value)]))

\* One pass of the loop that skips a filter whose column is absent.
filter_step_lenient(df, column_name, value) ==
    IF ~Truthy(value) THEN Returned(df)
    ELSE IF column_name = "date_after"
    THEN IF "date" \notin Range(df.columns) THEN Returned(df)
         ELSE Returned(BoolIndex(df, [i \in 1..Len(df.data) |->
                Gt(df.data[i]["date"], value)]))
    ELSE IF column_name = "date_before"
    THEN IF "date" \notin Range(df.columns) THEN Returned(df)
         ELSE Returned(BoolIndex(df, [i \in 1..Len(df.data) |->
                Lt(df.data[i]["date"], value)]))
    ELSE IF column_name \notin Range(df.columns) THEN Returned(df)
         ELSE Returned(BoolIndex(df, [i \in 1..Len(df.data) |->
                Eq(df.data[i][column_name], value)]))

\* One pass of the loop of filter_dataframe: df[name] raises KeyError when
\* the frame has no such column.
filter_step(df, column_name, value) ==
    IF ~Truthy(value) THEN Returned(df)
    ELSE IF column_name = "date_after"
    THEN IF "date" \notin Range(df.columns) THEN Raised("KeyError")
         ELSE Returned(BoolIndex(df, [i \in 1..Len(df.data) |->
                Gt(df.data[i]["date"], value)]))
    ELSE IF column_name = "date_before"
    THEN IF "date" \notin Range(df.columns) THEN Raised("KeyError")
         ELSE Returned(BoolIndex(df, [i \in 1..Len(df.data) |->
                Lt(df.data[i]["date"], value)]))
    ELSE IF column_name \notin Range(df.columns) THEN Raised("KeyError")
         ELSE Returned(BoolIndex(df, [i \in 1..Len(df.data) |->
                Eq(df.data[i][column_name], value)]))

RECURSIVE filter_loop(_, _)
\* the loop over filter_kwargs.items(); an exception ends it
filter_loop(cur, items) ==
    IF items = <<>> \/ cur.exc # "none" THEN cur
    ELSE filter_loop(filter_step(cur.value, items[1][1], items[1][2]), Tail(items))

filter_dataframe(df, filter_kwargs) == filter_loop(Returned(df), filter_kwargs)

(***************************************************************************)
(* db_query.py: the command surface.                                       *)
(***************************************************************************)
\* The options display_analyses declares, and the parameter name click
\* derives from each (the long name, dashes turned into underscores).
DeclaredOptions == {"--date-after", "--date-before", "--department", "--analyst-name"}

ParamName(option) ==
    CASE option = "--date-after" -> "date_after"
      [] option = "--date-before" -> "date_before"
      [] option = "--department" -> "department"
      [] option = "--analyst-name" -> "analyst_name"

\* The parameters of the handler besides ctx.
HandlerParams == {"date_after", "date_before", "department", "analyst"}

\* The body of display_analyses; the frame it echoes or writes.
display_analyses_body(db, kw) ==
    LET filter_kwargs == << <<"date_after", kw["date_after"]>>,
                            <<"date_before", kw["date_before"]>>,
                            <<"department", kw["department"]>>,
                            <<"analyst", kw["analyst"]>> >>
    IN filter_dataframe(get_analyses(db), filter_kwargs)

\* click invokes the callback with one keyword argument per declared option;
\* Python raises TypeError when a keyword is not a parameter of the callback.
display_analyses(db, opts) ==
    LET kwargs == [p \in {ParamName(o) : o \in DeclaredOptions} |->
                     opts[CHOOSE o \in DeclaredOptions : ParamName(o) = p]]
    IN IF DOMAIN kwargs # HandlerParams
       THEN Raised("TypeError")
       ELSE display_analyses_body(db, kwargs)


(***************************************************************************)
(* The inputs the operations are run on.                                   *)
(***************************************************************************)
SeqsUpTo(S, n) == UNION {[1..k -> S] : k \in 0..n}

AnalysisIds == 0..1
SampleNames == {"S01", "S02"}
Dates == 1..3
Departments == {"QC", "RD"}
Analysts == {"DMT", "JS"}

\* metrics documents, as the items of the stored JSON object
MetricsDocs ==
    { << <<"ph", IntV(7)>> >>,
      << <<"temp", IntV(37)>>, <<"ph", IntV(7)>> >>,
      << <<"sample_name", StrV("x9")>> >> }

AnalysisRow(id, date, department, analyst) ==
    [analysis_id |-> IntV(id), analysis_name |-> StrV("run"), date |-> DateV(date),
     department |-> StrV(department), analyst |-> StrV(analyst)]

\* analyses as the query specification inserts them: one date, department, analyst
PlainAnalyses == {AnalysisRow(id, 1, "QC", "DMT") : id \in AnalysisIds}

AllAnalyses ==
    {AnalysisRow(id, d, "QC", a) : id \in AnalysisIds, d \in 1..2, a \in Analysts}

AnalysisArgs ==
    {NoneV} \cup {IntV(a) : a \in AnalysisIds}
            \cup {ListV(l) : l \in SeqsUpTo({IntV(a) : a \in AnalysisIds}, 2)}

SampleArgs ==
    {NoneV} \cup {StrV(n) : n \in SampleNames}
            \cup {ListV(l) : l \in SeqsUpTo({StrV(n) : n \in SampleNames}, 2)}

\* what the command line can give display_analyses: each option's value, the
\* defaults being 2015-01-01 (day 0) and today (day 3) for the two dates
CliOptions ==
    {[o \in DeclaredOptions |->
        CASE o = "--date-after" -> DateV(da)
          [] o = "--date-before" -> DateV(db)
          [] o = "--department" -> dep
          [] o = "--analyst-name" -> an] :
      da \in {0, 1}, db \in {2, 3}, dep \in {NoneV, StrV("QC")},
      an \in {NoneV} \cup {StrV(a) : a \in Analysts}}

\* frames handed to filter_dataframe: any columns among date, department and
\* analyst, up to MaxFrameRows rows
CellValues(c) ==
    CASE c = "date" -> {DateV(d) : d \in Dates}
      [] c = "department" -> {StrV(d) : d \in Departments}
      [] c = "analyst" -> {StrV("DMT"), NaN}

FrameColumns ==
    {SelectSeq(<<"date", "department", "analyst">>, LAMBDA c : c \in S) :
       S \in SUBSET {"date", "department", "analyst"}}

FrameRows(cols) ==
    {r \in [Range(cols) -> UNION {CellValues(c) : c \in Range(cols)}] :
       \A c \in Range(cols) : r[c] \in CellValues(c)}

Frames ==
    UNION {{[columns |-> cols, data |-> d] :
              d \in IF cols = <<>> THEN {<<>>}
                    ELSE SeqsUpTo(FrameRows(cols), MaxFrameRows)} :
           cols \in FrameColumns}

\* filter mappings: the four names display_analyses passes, in its order or
\* in the reverse order, each with a falsy or a non-falsy value
FilterMappings ==
    LET fwd == {<< <<"date_after", da>>, <<"date_before", db>>,
                   <<"department", dep>>, <<"analyst", an>> >> :
                  da \in {NoneV, DateV(1), DateV(2)},
                  db \in {NoneV, DateV(2), DateV(3)},
                  dep \in {NoneV, StrV(""), StrV("QC")},
                  an \in {NoneV, IntV(0), StrV("DMT")}}
    IN fwd \cup {<<m[4], m[3], m[2], m[1]>> : m \in fwd}

(***************************************************************************)
(* The operations.                                                         *)
(***************************************************************************)
Init ==
    /\ tables = {}
    /\ analyses = <<>>
    /\ samples = <<>>
    /\ results = <<>>
    /\ call = [op |-> "none"]
    /\ ret = Returned(NoneV)

\* db_create.main
CreateAll ==
    LET db == create_all(Db)
    IN /\ tables' = db.tables
       /\ analyses' = db.analyses
       /\ samples' = db.samples
       /\ results' = db.results
       /\ call' = [op |-> "create_all"]
       /\ ret' = Returned(NoneV)

\* The insertion logic outside the repository: rows enter under the
\* primary-key and foreign-key constraints the schema declares.
InsertAnalysis(row) ==
    /\ "analyses" \in tables
    /\ Rows < MaxRows
    /\ \A i \in 1..Len(analyses) : analyses[i].analysis_id # row.analysis_id
    /\ analyses' = Append(analyses, row)
    /\ call' = [op |-> "insert"]
    /\ ret' = Returned(NoneV)
    /\ UNCHANGED <<tables, samples, results>>

InsertSample(name, aid) ==
    /\ "samples" \in tables
    /\ Rows < MaxRows
    /\ \E i \in 1..Len(analyses) : analyses[i].analysis_id = aid
    /\ samples' = Append(samples,
                    [sample_id |-> IntV(Len(samples) + 1), sample_name |-> StrV(name),
                     sample_type |-> NoneV, sample_description |-> NoneV,
                     analysis_id |-> aid])
    /\ call' = [op |-> "insert"]
    /\ ret' = Returned(NoneV)
    /\ UNCHANGED <<tables, analyses, results>>

InsertResult(sid, metrics) ==
    /\ "results" \in tables
    /\ Rows < MaxRows
    /\ \E i \in 1..Len(samples) : samples[i].sample_id = sid
    /\ results' = Append(results,
                    [result_id |-> IntV(Len(results) + 1), sample_id |-> sid,
                     metrics |-> metrics])
    /\ call' = [op |-> "insert"]
    /\ ret' = Returned(NoneV)
    /\ UNCHANGED <<tables, analyses, samples>>

GetResultsByAnalysis(analysis_id) ==
    /\ Metadata \subseteq tables
    /\ call' = [op |-> "get_results_by_analysis", arg |-> analysis_id,
                query |-> query_by_analysis(Db, analysis_id)]
    /\ ret' = Returned(get_results_by_analysis(Db, analysis_id))
    /\ UNCHANGED <<tables, analyses, samples, results>>

GetResultsBySample(sample_name) ==
    /\ Metadata \subseteq tables
    /\ call' = [op |-> "get_results_by_sample", arg |-> sample_name,
                query |-> query_by_sample(Db, sample_name)]
    /\ ret' = Returned(get_results_by_sample(Db, sample_name))
    /\ UNCHANGED <<tables, analyses, samples, results>>

GetAnalyses ==
    /\ Metadata \subseteq tables
    /\ call' = [op |-> "get_analyses"]
    /\ ret' = Returned(get_analyses(Db))
    /\ UNCHANGED <<tables, analyses, samples, results>>

\* db_query.display_analyses, run from the command line with the given options
DisplayAnalyses(opts) ==
    /\ Metadata \subseteq tables
    /\ call' = [op |-> "display_analyses", opts |-> opts]
    /\ ret' = display_analyses(Db, opts)
    /\ UNCHANGED <<tables, analyses, samples, results>>

\* filter_dataframe applied to the frame the run starts with
FilterDataframe(filter_kwargs) ==
    /\ call.op = "frame"
    /\ call' = [op |-> "filter_dataframe", df |-> call.df,
                filter_kwargs |-> filter_kwargs]
    /\ ret' = filter_dataframe(call.df, filter_kwargs)
    /\ UNCHANGED <<tables, analyses, samples, results>>

Next ==
    \/ CreateAll
    \/ \E row \in PlainAnalyses : InsertAnalysis(row)
    \/ \E n \in SampleNames, a \in AnalysisIds : InsertSample(n, IntV(a))
    \/ \E s \in 1..MaxRows, m \in MetricsDocs : InsertResult(IntV(s), m)
    \/ \E a \in AnalysisArgs : GetResultsByAnalysis(a)
    \/ \E n \in SampleArgs : GetResultsBySample(n)

Spec == Init /\ [][Next]_vars


\* The command surface on the analyses table.
NextCli ==
    \/ CreateAll
    \/ \E row \in AllAnalyses : InsertAnalysis(row)
    \/ GetAnalyses
    \/ \E opts \in CliOptions : DisplayAnalyses(opts)

SpecCli == Init /\ [][NextCli]_vars

\* filter_dataframe on every frame and filter mapping of the bounded sets.
InitFilter ==
    /\ tables = {}
    /\ analyses = <<>>
    /\ samples = <<>>
    /\ results = <<>>
    /\ call \in {[op |-> "frame", df |-> f] : f \in Frames}
    /\ ret = Returned(NoneV)

NextFilter == \E m \in FilterMappings : FilterDataframe(m)

SpecFilter == InitFilter /\ [][NextFilter]_vars

(***************************************************************************)
(* Properties.                                                             *)
(***************************************************************************)
IsQuery == call.op \in {"get_results_by_analysis", "get_results_by_sample"}

\* the identifiers or names an argument asks for
Members(arg) == IF arg.t = "list" THEN Range(arg.v) ELSE {arg}

\* the keys of the metrics document of the i-th pair of a query
MetricKeys(query, i) == Keys(query[i][1].metrics)

AllMetricKeys(query) == UNION {MetricKeys(query, i) : i \in 1..Len(query)}

\* C1: get_results_by_analysis called with an identifier A, with [A] or with
\* a list of identifiers returns exactly one row per joined (Result, Sample)
\* pair whose Sample.analysis_id is A, respectively a member of the list.
C1_ByAnalysisExact ==
    (call.op = "get_results_by_analysis" /\ call.arg.t \in {"int", "list"}) =>
        /\ call.query = SelectSeq(Join(Db),
                          LAMBDA p : p[2].analysis_id \in Members(call.arg))
        /\ Len(ret.value.data) = Len(call.query)

\* C2: get_results_by_sample called with a list S of sample names, the empty
\* one included, returns exactly the joined pairs whose Sample.sample_name is
\* in S, each once.
C2_BySampleUnion ==
    (call.op = "get_results_by_sample" /\ call.arg.t = "list") =>
        /\ call.query = SelectSeq(Join(Db),
                          LAMBDA p : p[2].sample_name \in Members(call.arg))
        /\ Len(ret.value.data) = Len(call.query)

\* C3: return_dataframe emits one row per pair, in order; in each row
\* sample_name and analysis_id hold the Sample's values and every key of the
\* Result's metrics document is a column holding its value, whatever the keys.
C3_FlattenRow ==
    IsQuery =>
        /\ Len(ret.value.data) = Len(call.query)
        /\ \A i \in 1..Len(call.query) :
              LET row == ret.value.data[i]
                  sample == call.query[i][2]
                  metrics == call.query[i][1].metrics
              IN /\ row["sample_name"] = sample.sample_name
                 /\ row["analysis_id"] = sample.analysis_id
                 /\ \A k \in Keys(metrics) :
                       k \in Range(ret.value.columns) /\ row[k] = Get(metrics, k)

\* C4: for pairs whose metrics documents have differing key sets,
\* return_dataframe does not fail, the columns are sample_name, analysis_id
\* and the union of the metrics keys, and a row whose Result lacks a key has
\* the missing value in that column.
C4_HeterogeneousColumns ==
    (IsQuery /\ \E i, j \in 1..Len(call.query) :
                    MetricKeys(call.query, i) # MetricKeys(call.query, j)) =>
        /\ ret.exc = "none"
        /\ Range(ret.value.columns)
             = {"sample_name", "analysis_id"} \cup AllMetricKeys(call.query)
        /\ \A i \in 1..Len(call.query) :
              \A k \in AllMetricKeys(call.query) \ MetricKeys(call.query, i) :
                  ret.value.data[i][k] = NaN

\* the column a filter name reads
FilterColumn(name) == IF name \in {"date_after", "date_before"} THEN "date" ELSE name

IsFilter == call.op = "filter_dataframe"

\* the filters of a mapping that have a non-falsy value
Applied(kw) == {j \in 1..Len(kw) : Truthy(kw[j][2])}

\* whether a row passes one filter
Passes(row, name, value) ==
    CASE name = "date_after" -> row["date"].v > value.v
      [] name = "date_before" -> row["date"].v < value.v
      [] OTHER -> row[name] = value

\* C5: when the columns named by the filters exist, filter_dataframe returns
\* exactly the rows of the table, in order, that pass every non-falsy filter:
\* date strictly after date_after, strictly before date_before, and the
\* named column equal to the value for any other name.
C5_FilterConjunction ==
    (IsFilter /\ \A j \in Applied(call.filter_kwargs) :
                    FilterColumn(call.filter_kwargs[j][1]) \in Range(call.df.columns)) =>
        LET kw == call.filter_kwargs
            keep == [i \in 1..Len(call.df.data) |->
                       \A j \in Applied(kw) : Passes(call.df.data[i], kw[j][1], kw[j][2])]
        IN /\ ret.exc = "none"
           /\ ret.value.columns = call.df.columns
           /\ ret.value.data = SelectSeqIdx(call.df.data, keep, 1)

\* a date filter was applied to a table holding a row dated exactly the
\* bound and a row that passes, and an equality filter was applied too
C5_Witness ==
    /\ IsFilter
    /\ ret.exc = "none"
    /\ call.filter_kwargs[1] = <<"date_after", DateV(1)>>
    /\ call.filter_kwargs[3] = <<"department", StrV("QC")>>
    /\ Len(call.df.data) = 2
    /\ call.df.data[1]["date"] = DateV(1)
    /\ call.df.data[2]["date"] = DateV(2)
    /\ Len(ret.value.data) = 1

\* C6: with every filter value falsy, filter_dataframe returns the table
\* unchanged and raises nothing, even for a filter naming no column of it.
C6_FalsySkipped ==
    (IsFilter /\ Applied(call.filter_kwargs) = {}) => ret = Returned(call.df)

\* falsy values of three kinds went over a non-empty table without the
\* department column
C6_Witness ==
    /\ IsFilter
    /\ Applied(call.filter_kwargs) = {}
    /\ \E j \in 1..4 : call.filter_kwargs[j] = <<"department", StrV("")>>
    /\ \E j \in 1..4 : call.filter_kwargs[j] = <<"analyst", IntV(0)>>
    /\ "department" \notin Range(call.df.columns)
    /\ Len(call.df.data) = 2
    /\ ret = Returned(call.df)

\* C7: create_all run against an endpoint that already holds the three
\* tables leaves the tables and every row stored in them as they were.
C7_CreateIdempotent ==
    [][(call'.op = "create_all" /\ Metadata \subseteq tables) =>
          (tables' = tables /\ analyses' = analyses
             /\ samples' = samples /\ results' = results)]_vars

\* create_all has just run on an endpoint with rows in all three tables
C7_Witness ==
    /\ call.op = "create_all"
    /\ Len(analyses) > 0
    /\ Len(samples) > 0
    /\ Len(results) > 0

\* C8: get_analyses returns one row per Analysis row under exactly the
\* columns analysis_id, analysis_name, date, department, analyst, for every
\* database content, the one with no Analysis row included.
C8_FixedColumns ==
    call.op = "get_analyses" =>
        /\ ret.exc = "none"
        /\ Len(ret.value.data) = Len(analyses)
        /\ ret.value.columns
             = <<"analysis_id", "analysis_name", "date", "department", "analyst">>

\* C9: a non-falsy filter whose column is absent from the table ends the
\* call in a lookup failure, whichever filters precede it.
C9_MissingColumnRaises ==
    (IsFilter /\ \E j \in Applied(call.filter_kwargs) :
                    FilterColumn(call.filter_kwargs[j][1]) \notin Range(call.df.columns)) =>
        ret = Raised("KeyError")

\* a date filter was applied and emptied the table before the filter on the
\* absent column was reached
C9_Witness ==
    /\ IsFilter
    /\ call.filter_kwargs[1] = <<"date_after", DateV(2)>>
    /\ call.filter_kwargs[4] = <<"analyst", StrV("DMT")>>
    /\ call.df.columns = <<"date", "department">>
    /\ Len(call.df.data) = 1
    /\ call.df.data[1]["date"] = DateV(1)
    /\ ret = Raised("KeyError")

\* C10: every invocation of display_analyses reaches its handler and the
\* analyst option is applied as an equality filter on the analyst column:
\* the output holds exactly the Analysis rows with that analyst that pass
\* the other filters.
C10_AnalystFilterApplied ==
    call.op = "display_analyses" =>
        LET kw == << <<"date_after", call.opts["--date-after"]>>,
                     <<"date_before", call.opts["--date-before"]>>,
                     <<"department", call.opts["--department"]>>,
                     <<"analyst", call.opts["--analyst-name"]>> >>
            all == get_analyses(Db).data
            keep == [i \in 1..Len(all) |->
                       \A j \in Applied(kw) : Passes(all[i], kw[j][1], kw[j][2])]
        IN /\ ret.exc = "none"
           /\ ret.value.data = SelectSeqIdx(all, keep, 1)

====
